---- MODULE Spec2Model ----
(***************************************************************************)
(* The standardized error / validation / response pipeline of the web      *)
(* starter kit: type guards (lib/guards.ts), the error taxonomy            *)
(* (lib/errors.ts), the validation helpers (lib/validation.ts), the        *)
(* response envelope (types/api.ts) and the request boundaries that the    *)
(* guides give for them (API route handler, server actions).               *)
(*                                                                         *)
(* JavaScript values are records tagged by t.  A JS string value carries   *)
(* its characters as a sequence of one-character strings, so that the      *)
(* regular expression, trim and toLowerCase are computed character by      *)
(* character.  Error messages, codes and field names are TLA+ strings.     *)
(* An optional field (code?: string, min?: number) is the empty set when   *)
(* it is undefined and a singleton when it is set.                         *)
(***************************************************************************)
EXTENDS Integers, Sequences, FiniteSets, TLC

VARIABLES call, outcome, errors, request, response, log, db, client, shared

vars == <<call, outcome, errors, request, response, log, db, client, shared>>

(***************************************************************************)
(* Bounds of the model                                                     *)
(***************************************************************************)
MaxStrLen == 6      \* longest string handed to validateEmail / validateUrl
MaxShortLen == 2    \* longest string among the general values
MaxNum == 2         \* finite numbers range over -MaxNum .. MaxNum
MaxArrLen == 2      \* longest array among the general values
MaxErrors == 2      \* error instances alive at once

(***************************************************************************)
(* JavaScript values                                                       *)
(***************************************************************************)
None == {}
Some(x) == {x}
Get(opt) == CHOOSE x \in opt : TRUE

Null == [t |-> "null"]
Undefined == [t |-> "undefined"]
Str(cs) == [t |-> "string", s |-> cs]
Num(n) == [t |-> "number", k |-> "finite", n |-> n]
NaN == [t |-> "number", k |-> "nan", n |-> 0]
PosInfinity == [t |-> "number", k |-> "+inf", n |-> 0]
NegInfinity == [t |-> "number", k |-> "-inf", n |-> 0]
Bool(b) == [t |-> "boolean", b |-> b]
Arr(items) == [t |-> "array", a |-> items]
\* a plain object literal {message, code, statusCode}: error-shaped, no prototype
PlainObj(m, c, sc) == [t |-> "object", message |-> m, code |-> c, statusCode |-> sc]

\* the typeof operator
TypeOf(v) ==
  CASE v.t = "undefined" -> "undefined"
    [] v.t = "string" -> "string"
    [] v.t = "number" -> "number"
    [] v.t = "boolean" -> "boolean"
    [] OTHER -> "object"

Alphabet == {"a", "B", "@", ".", " "}
Whitespace == {" ", "\t", "\n", "\r"}

\* the addresses of the documentation's examples
ExampleEmails ==
  {<<"A", "@", "B", ".", "c", "o", "m">>,
   <<"U", "S", "E", "R", "@", "E", "x", "a", "m", "p", "l", "e", ".", "c", "o", "m", " ">>,
   <<"n", "o", "t", "-", "a", "n", "-", "e", "m", "a", "i", "l">>}

StringsUpTo(n) == UNION {[1..k -> Alphabet] : k \in 0..n}

Numbers == {Num(n) : n \in (0 - MaxNum)..MaxNum} \cup {NaN, PosInfinity, NegInfinity}
Booleans == {Bool(TRUE), Bool(FALSE)}
Arrays == {Arr(a) : a \in UNION {[1..k -> {Null, Num(0)}] : k \in 0..MaxArrLen}}
Objects == {PlainObj("m", "VALIDATION_ERROR", 400)}
NonStrings == {Null, Undefined} \cup Numbers \cup Booleans \cup Arrays \cup Objects

\* every shape a request-derived value can have
Values == NonStrings \cup {Str(s) : s \in StringsUpTo(MaxShortLen)}
\* the same, with every string up to MaxStrLen
LongValues == NonStrings \cup {Str(s) : s \in StringsUpTo(MaxStrLen) \cup ExampleEmails}

(***************************************************************************)
(* lib/guards.ts                                                           *)
(***************************************************************************)
\* a truthiness test in place of the null check: rejects 0, false, "" and NaN
isNotNull_Truthy(value) ==
  /\ value # Null /\ value # Undefined
  /\ value # Bool(FALSE) /\ value # Str(<<>>) /\ value # Num(0) /\ value # NaN

isNotNull(value) == value # Null /\ value # Undefined

\* value != undefined: the loose comparison, which null fails too
isDefined_LooseEquality(value) == value # Undefined /\ value # Null

isDefined(value) == value # Undefined

isString(value) == TypeOf(value) = "string"

isNumber(value) == TypeOf(value) = "number" /\ value.k # "nan"

isBoolean(value) == TypeOf(value) = "boolean"

isArray(value) == value.t = "array"

\* typeof value === 'object' alone, which null and arrays pass
isObject_TypeofOnly(value) == TypeOf(value) = "object"

isObject(value) == TypeOf(value) = "object" /\ value # Null /\ ~isArray(value)

(***************************************************************************)
(* lib/errors.ts                                                           *)
(***************************************************************************)
\* the prototype chain: class -> its superclass
SuperClass ==
  [c \in {"Error", "TypeError", "SyntaxError", "AppError", "ValidationError", "NotFoundError",
          "UnauthorizedError", "ForbiddenError", "ConflictError"} |->
     CASE c = "Error" -> "Object"
       [] c = "TypeError" -> "Error"
       [] c = "SyntaxError" -> "Error"
       [] c = "AppError" -> "Error"
       [] OTHER -> "AppError"]

RECURSIVE InheritsFrom(_, _)
InheritsFrom(cls, ancestor) ==
  IF cls = ancestor THEN TRUE
  ELSE IF cls \notin DOMAIN SuperClass THEN FALSE
  ELSE InheritsFrom(SuperClass[cls], ancestor)

\* value instanceof cls
InstanceOf(value, cls) == value.t = "error" /\ InheritsFrom(value.cls, cls)

\* new Error(message) and the built-in subclasses: no code, no statusCode
NativeError(cls, message) ==
  [t |-> "error", cls |-> cls, name |-> cls, message |-> message,
   code |-> None, statusCode |-> None]

DefaultStatusCode == 500

\* new AppError(message, code, statusCode = 500), statusCode optional
AppErrorCtor(cls, message, code, statusCode) ==
  [t |-> "error", cls |-> cls, name |-> "AppError", message |-> message,
   code |-> Some(code),
   statusCode |-> IF statusCode = None THEN Some(DefaultStatusCode) ELSE statusCode]

AppError(message, code, statusCode) == AppErrorCtor("AppError", message, code, statusCode)

ValidationError(message) ==
  [AppErrorCtor("ValidationError", message, "VALIDATION_ERROR", Some(400))
     EXCEPT !.name = "ValidationError"]

\* the resource name used as the whole message
NotFoundError_RawResource(resource) ==
  [AppErrorCtor("NotFoundError", resource, "NOT_FOUND", Some(404))
     EXCEPT !.name = "NotFoundError"]

NotFoundError(resource) ==
  [AppErrorCtor("NotFoundError", resource \o " not found", "NOT_FOUND", Some(404))
     EXCEPT !.name = "NotFoundError"]

\* message is optional: message: string = 'Unauthorized'
UnauthorizedError(message) ==
  [AppErrorCtor("UnauthorizedError", IF message = None THEN "Unauthorized" ELSE Get(message),
                "UNAUTHORIZED", Some(401))
     EXCEPT !.name = "UnauthorizedError"]

\* message is optional: message: string = 'Forbidden'
ForbiddenError(message) ==
  [AppErrorCtor("ForbiddenError", IF message = None THEN "Forbidden" ELSE Get(message),
                "FORBIDDEN", Some(403))
     EXCEPT !.name = "ForbiddenError"]

\* the super call copied from ValidationError with only the code changed
ConflictError_Status400(message) ==
  [AppErrorCtor("ConflictError", message, "CONFLICT", Some(400))
     EXCEPT !.name = "ConflictError"]

ConflictError(message) ==
  [AppErrorCtor("ConflictError", message, "CONFLICT", Some(409))
     EXCEPT !.name = "ConflictError"]

\* instanceof Error in place of instanceof AppError
isAppError_AnyError(error) == InstanceOf(error, "Error")

\* a test of the fields in place of the prototype chain
isAppError_DuckTyped(error) ==
  IF error.t = "object" THEN "code" \in DOMAIN error ELSE InstanceOf(error, "AppError")

isAppError(error) == InstanceOf(error, "AppError")

isError(value) == InstanceOf(value, "Error")

\* JSON.stringify inside a template literal: undefined renders as the word,
\* NaN and the infinities as null, an error as its own enumerable fields
RECURSIVE JsonStringify(_)
JsonStringify(v) ==
  CASE v.t = "undefined" -> "undefined"
    [] v.t = "null" -> "null"
    [] v.t = "string" ->
         "\"" \o (IF v.s = <<>> THEN "" ELSE Head(v.s) \o
                    SubSeq(JsonStringify(Str(Tail(v.s))), 2,
                           Len(JsonStringify(Str(Tail(v.s)))) - 1)) \o "\""
    [] v.t = "number" -> IF v.k = "finite" THEN ToString(v.n) ELSE "null"
    [] v.t = "boolean" -> IF v.b THEN "true" ELSE "false"
    [] v.t = "array" ->
         IF v.a = <<>> THEN "[]"
         ELSE IF Len(v.a) = 1 THEN "[" \o JsonStringify(v.a[1]) \o "]"
         ELSE "[" \o JsonStringify(Head(v.a)) \o ","
              \o SubSeq(JsonStringify(Arr(Tail(v.a))), 2, Len(JsonStringify(Arr(Tail(v.a)))))
    [] v.t = "object" ->
         "{\"message\":\"" \o v.message \o "\",\"code\":\"" \o v.code
         \o "\",\"statusCode\":" \o ToString(v.statusCode) \o "}"
    [] v.t = "error" ->
         IF v.code = None THEN "{}"
         ELSE "{\"code\":\"" \o Get(v.code) \o "\",\"statusCode\":"
              \o ToString(Get(v.statusCode)) \o ",\"name\":\"" \o v.name \o "\"}"

\* an exhaustiveness failure raised as a member of the taxonomy
assertNever_AppError(x) ==
  [kind |-> "throw",
   error |-> AppError("Unexpected value: " \o JsonStringify(x), "UNEXPECTED_VALUE", None)]

assertNever(x) ==
  [kind |-> "throw", error |-> NativeError("Error", "Unexpected value: " \o JsonStringify(x))]

(***************************************************************************)
(* String primitives used by lib/validation.ts                             *)
(***************************************************************************)
UpperCase == <<"A", "B", "C", "D", "E", "F", "G", "H", "I", "J", "K", "L", "M",
               "N", "O", "P", "Q", "R", "S", "T", "U", "V", "W", "X", "Y", "Z">>
LowerCase == <<"a", "b", "c", "d", "e", "f", "g", "h", "i", "j", "k", "l", "m",
               "n", "o", "p", "q", "r", "s", "t", "u", "v", "w", "x", "y", "z">>

ToLowerChar(c) ==
  IF \E i \in DOMAIN UpperCase : UpperCase[i] = c
  THEN LowerCase[CHOOSE i \in DOMAIN UpperCase : UpperCase[i] = c]
  ELSE c

\* String.prototype.toLowerCase
ToLowerCase(s) == [i \in 1..Len(s) |-> ToLowerChar(s[i])]

RECURSIVE TrimStart(_)
TrimStart(s) ==
  IF s # <<>> /\ Head(s) \in Whitespace THEN TrimStart(Tail(s)) ELSE s

RECURSIVE TrimEnd(_)
TrimEnd(s) ==
  IF s # <<>> /\ s[Len(s)] \in Whitespace THEN TrimEnd(SubSeq(s, 1, Len(s) - 1)) ELSE s

\* String.prototype.trim
Trim(s) == TrimEnd(TrimStart(s))

\* the class [^@]: whitespace let through
EmailChar_AllowsSpace(c) == c # "@"

\* a character of the class [^\s@]
EmailChar(c) == c \notin Whitespace /\ c # "@"

\* /^[^\s@]+@[^\s@]+\.[^\s@]+$/.test(s): some "@" at i and some "." at j split
\* s into three non-empty runs of [^\s@]
emailRegexTest(s) ==
  \E i \in 2..Len(s), j \in 4..(Len(s) - 1) :
    /\ i + 1 < j
    /\ s[i] = "@"
    /\ s[j] = "."
    /\ \A k \in 1..Len(s) : (k # i /\ k # j) => EmailChar(s[k])

\* a template literal's rendering of a string value
RECURSIVE Show(_)
Show(s) == IF s = <<>> THEN "" ELSE Head(s) \o Show(Tail(s))

\* Array.prototype.join() with its default separator
RECURSIVE Join_DefaultSeparator(_)
Join_DefaultSeparator(list) ==
  IF list = <<>> THEN ""
  ELSE IF Len(list) = 1 THEN Show(list[1])
  ELSE Show(Head(list)) \o "," \o Join_DefaultSeparator(Tail(list))

\* Array.prototype.join(', ') over string values
RECURSIVE Join(_)
Join(list) ==
  IF list = <<>> THEN ""
  ELSE IF Len(list) = 1 THEN Show(list[1])
  ELSE Show(Head(list)) \o ", " \o Join(Tail(list))

Letters == {"a", "B"}
SchemeChars == Letters \cup {"+", "-", "."}
UrlAlphabet == {"a", ":", " "}

\* new URL(s) with no base.  Within UrlAlphabet no special scheme and no "/"
\* can be spelled, so parsing succeeds exactly when, after the leading and
\* trailing spaces are stripped, a scheme (a letter, then scheme characters)
\* is followed by ":"; anything else is "TypeError: Invalid URL".
URLCtor(s) ==
  LET u == Trim(s) IN
  IF \E i \in 2..Len(u) :
       /\ u[i] = ":"
       /\ u[1] \in Letters
       /\ \A k \in 2..(i - 1) : u[k] \in SchemeChars
  THEN [kind |-> "return", value |-> Str(u)]
  ELSE [kind |-> "throw", error |-> NativeError("TypeError", "Invalid URL")]

(***************************************************************************)
(* lib/validation.ts: a call either returns a value or throws an error     *)
(***************************************************************************)
Return(v) == [kind |-> "return", value |-> v]
Throw(e) == [kind |-> "throw", error |-> e]
Pending == [kind |-> "pending"]

validateRequired(value, fieldName) ==
  IF ~isNotNull(value)
  THEN Throw(ValidationError(fieldName \o " is required"))
  ELSE Return(value)

\* the format test left out
validateEmail_NoFormatCheck(email) ==
  IF ~isString(email)
  THEN Throw(ValidationError("Email must be a string"))
  ELSE Return(Str(Trim(ToLowerCase(email.s))))

validateEmail(email) ==
  IF ~isString(email)
  THEN Throw(ValidationError("Email must be a string"))
  ELSE IF ~emailRegexTest(email.s)
  THEN Throw(ValidationError("Invalid email format"))
  ELSE Return(Str(Trim(ToLowerCase(email.s))))

\* the URL constructor's failure left uncaught
validateUrl_NoCatch(url) ==
  IF ~isString(url)
  THEN Throw(ValidationError("URL must be a string"))
  ELSE IF URLCtor(url.s).kind = "throw"
  THEN URLCtor(url.s)
  ELSE Return(url)

validateUrl(url) ==
  IF ~isString(url)
  THEN Throw(ValidationError("URL must be a string"))
  ELSE IF URLCtor(url.s).kind = "throw"
  THEN Throw(ValidationError("Invalid URL format"))
  ELSE Return(url)

\* the accepted string returned trimmed
validateStringLength_Trimmed(value, fieldName, constraints) ==
  IF ~isString(value)
  THEN Throw(ValidationError(fieldName \o " must be a string"))
  ELSE IF constraints.min # None /\ Len(value.s) < Get(constraints.min)
  THEN Throw(ValidationError(fieldName \o " must be at least "
                             \o ToString(Get(constraints.min)) \o " characters"))
  ELSE IF constraints.max # None /\ Len(value.s) > Get(constraints.max)
  THEN Throw(ValidationError(fieldName \o " must be at most "
                             \o ToString(Get(constraints.max)) \o " characters"))
  ELSE Return(Str(Trim(value.s)))

validateStringLength(value, fieldName, constraints) ==
  IF ~isString(value)
  THEN Throw(ValidationError(fieldName \o " must be a string"))
  ELSE IF constraints.min # None /\ Len(value.s) < Get(constraints.min)
  THEN Throw(ValidationError(fieldName \o " must be at least "
                             \o ToString(Get(constraints.min)) \o " characters"))
  ELSE IF constraints.max # None /\ Len(value.s) > Get(constraints.max)
  THEN Throw(ValidationError(fieldName \o " must be at most "
                             \o ToString(Get(constraints.max)) \o " characters"))
  ELSE Return(value)

\* the NaN test left out
NumberIsNaN_Never(value) == FALSE

\* Number.isNaN
NumberIsNaN(value) == TypeOf(value) = "number" /\ value.k = "nan"

\* value < bound and value > bound for a number value that is not NaN and a
\* finite bound
LessThan(value, bound) ==
  CASE value.k = "-inf" -> TRUE
    [] value.k = "+inf" -> FALSE
    [] OTHER -> value.n < bound

GreaterThan(value, bound) ==
  CASE value.k = "+inf" -> TRUE
    [] value.k = "-inf" -> FALSE
    [] OTHER -> value.n > bound

validateNumberRange(value, fieldName, constraints) ==
  IF TypeOf(value) # "number" \/ NumberIsNaN(value)
  THEN Throw(ValidationError(fieldName \o " must be a number"))
  ELSE IF constraints.min # None /\ LessThan(value, Get(constraints.min))
  THEN Throw(ValidationError(fieldName \o " must be at least "
                             \o ToString(Get(constraints.min))))
  ELSE IF constraints.max # None /\ GreaterThan(value, Get(constraints.max))
  THEN Throw(ValidationError(fieldName \o " must be at most "
                             \o ToString(Get(constraints.max))))
  ELSE Return(value)

validateEnum(value, fieldName, allowedValues) ==
  IF ~isString(value)
  THEN Throw(ValidationError(fieldName \o " must be a string"))
  ELSE IF ~(\E i \in DOMAIN allowedValues : allowedValues[i] = value.s)
  THEN Throw(ValidationError(fieldName \o " must be one of: " \o Join(allowedValues)))
  ELSE Return(value)

\* the upper bound taken as exclusive
validateArray_ExclusiveMax(value, fieldName, constraints) ==
  IF ~isArray(value)
  THEN Throw(ValidationError(fieldName \o " must be an array"))
  ELSE IF constraints # None /\ Get(constraints).minLength # None
          /\ Len(value.a) < Get(Get(constraints).minLength)
  THEN Throw(ValidationError(fieldName \o " must contain at least "
                             \o ToString(Get(Get(constraints).minLength)) \o " items"))
  ELSE IF constraints # None /\ Get(constraints).maxLength # None
          /\ Len(value.a) >= Get(Get(constraints).maxLength)
  THEN Throw(ValidationError(fieldName \o " must contain at most "
                             \o ToString(Get(Get(constraints).maxLength)) \o " items"))
  ELSE Return(value)

\* constraints is itself optional (constraints?.minLength)
validateArray(value, fieldName, constraints) ==
  IF ~isArray(value)
  THEN Throw(ValidationError(fieldName \o " must be an array"))
  ELSE IF constraints # None /\ Get(constraints).minLength # None
          /\ Len(value.a) < Get(Get(constraints).minLength)
  THEN Throw(ValidationError(fieldName \o " must contain at least "
                             \o ToString(Get(Get(constraints).minLength)) \o " items"))
  ELSE IF constraints # None /\ Get(constraints).maxLength # None
          /\ Len(value.a) > Get(Get(constraints).maxLength)
  THEN Throw(ValidationError(fieldName \o " must contain at most "
                             \o ToString(Get(Get(constraints).maxLength)) \o " items"))
  ELSE Return(value)

(***************************************************************************)
(* Calls of the validation helpers: the call is drawn first, then the      *)
(* helper runs on it                                                       *)
(***************************************************************************)
FieldNames == {"email", "x"}

Optional(S) == {None} \cup {Some(x) : x \in S}

LengthConstraints == [min : Optional(0..(MaxShortLen + 1)), max : Optional(0..(MaxShortLen + 1))]
RangeConstraints == [min : Optional((0 - MaxNum)..MaxNum), max : Optional((0 - MaxNum)..MaxNum)]
ArrayConstraints ==
  Optional([minLength : Optional(0..(MaxArrLen + 1)), maxLength : Optional(0..(MaxArrLen + 1))])
\* the roles of the helper's example
Roles ==
  <<<<"a", "d", "m", "i", "n">>, <<"u", "s", "e", "r">>, <<"g", "u", "e", "s", "t">>>>
AllowedLists == {<<>>, <<<<"a">>, <<"B">>, <<"a", "B">>>>, <<<<"B">>, <<>>>>, Roles}
EnumValues == Values \cup {Str(Roles[1]), Str(Roles[3]), Str(<<"r", "o", "o", "t">>)}

UrlValues == NonStrings \cup {Str(s) : s \in UNION {[1..k -> UrlAlphabet] : k \in 0..MaxStrLen}}

ValidationCalls ==
  [op : {"validateRequired"}, value : Values, fieldName : FieldNames]
  \cup [op : {"validateEmail"}, value : LongValues]
  \cup [op : {"validateUrl"}, value : UrlValues]
  \cup [op : {"validateStringLength"}, value : Values, fieldName : FieldNames,
        constraints : LengthConstraints]
  \cup [op : {"validateNumberRange"}, value : Values, fieldName : FieldNames,
        constraints : RangeConstraints]
  \cup [op : {"validateEnum"}, value : EnumValues, fieldName : FieldNames,
        allowedValues : AllowedLists]
  \cup [op : {"validateArray"}, value : Values, fieldName : FieldNames,
        constraints : ArrayConstraints]

NoCall == [op |-> "none"]
NoRequest == [handler |-> "none"]
NoResponse == [kind |-> "none"]
NoClient == [phase |-> "none"]
\* the modules declare no object at module level that a call could write to
NoShared == [lastIndex |-> 0]

ValidateRequired ==
  /\ call.op = "validateRequired" /\ outcome = Pending
  /\ outcome' = validateRequired(call.value, call.fieldName)
  /\ UNCHANGED <<call, errors, request, response, log, db, client, shared>>

ValidateEmail ==
  /\ call.op = "validateEmail" /\ outcome = Pending
  /\ outcome' = validateEmail(call.value)
  /\ UNCHANGED <<call, errors, request, response, log, db, client, shared>>

ValidateUrl ==
  /\ call.op = "validateUrl" /\ outcome = Pending
  /\ outcome' = validateUrl(call.value)
  /\ UNCHANGED <<call, errors, request, response, log, db, client, shared>>

ValidateStringLength ==
  /\ call.op = "validateStringLength" /\ outcome = Pending
  /\ outcome' = validateStringLength(call.value, call.fieldName, call.constraints)
  /\ UNCHANGED <<call, errors, request, response, log, db, client, shared>>

ValidateNumberRange ==
  /\ call.op = "validateNumberRange" /\ outcome = Pending
  /\ outcome' = validateNumberRange(call.value, call.fieldName, call.constraints)
  /\ UNCHANGED <<call, errors, request, response, log, db, client, shared>>

ValidateEnum ==
  /\ call.op = "validateEnum" /\ outcome = Pending
  /\ outcome' = validateEnum(call.value, call.fieldName, call.allowedValues)
  /\ UNCHANGED <<call, errors, request, response, log, db, client, shared>>

ValidateArray ==
  /\ call.op = "validateArray" /\ outcome = Pending
  /\ outcome' = validateArray(call.value, call.fieldName, call.constraints)
  /\ UNCHANGED <<call, errors, request, response, log, db, client, shared>>

\* the helper that a call names, run on the call's arguments
ApplyValidator(c) ==
  CASE c.op = "validateRequired" -> validateRequired(c.value, c.fieldName)
    [] c.op = "validateEmail" -> validateEmail(c.value)
    [] c.op = "validateUrl" -> validateUrl(c.value)
    [] c.op = "validateStringLength" ->
         validateStringLength(c.value, c.fieldName, c.constraints)
    [] c.op = "validateNumberRange" ->
         validateNumberRange(c.value, c.fieldName, c.constraints)
    [] c.op = "validateEnum" -> validateEnum(c.value, c.fieldName, c.allowedValues)
    [] c.op = "validateArray" -> validateArray(c.value, c.fieldName, c.constraints)

InitValidation ==
  /\ call \in ValidationCalls
  /\ outcome = Pending
  /\ errors = <<>>
  /\ request = NoRequest
  /\ response = NoResponse
  /\ log = <<>>
  /\ db = <<>>
  /\ client = NoClient
  /\ shared = NoShared

NextValidation ==
  \/ ValidateRequired
  \/ ValidateEmail
  \/ ValidateUrl
  \/ ValidateStringLength
  \/ ValidateNumberRange
  \/ ValidateEnum
  \/ ValidateArray

SpecValidation == InitValidation /\ [][NextValidation]_vars

(***************************************************************************)
(* types/api.ts: the response envelope                                     *)
(***************************************************************************)
\* a helper that recomputes totalPages of a paginated payload
successResponse_Recomputed(data) ==
  IF data.t = "page" /\ data.pageSize > 0
  THEN [success |-> TRUE,
        data |-> [data EXCEPT !.totalPages = (data.total + data.pageSize - 1) \div data.pageSize]]
  ELSE [success |-> TRUE, data |-> data]

successResponse(data) == [success |-> TRUE, data |-> data]

\* an error envelope that also carries a data field
errorResponse_WithData(error, code) ==
  [success |-> FALSE, error |-> error, code |-> code, data |-> Null]

\* code?: string
errorResponse(error, code) == [success |-> FALSE, error |-> error, code |-> code]

\* Response.json(body, { status })
ResponseJson(body, status) == [kind |-> "http", body |-> body, status |-> status]

\* the value a server action resolves to: an ApiResponse, no transport status
ActionResult(body) == [kind |-> "action", body |-> body]

(***************************************************************************)
(* The request boundaries of the guides.  A try block yields its result    *)
(* (the value returned or the failure thrown) with the database operations *)
(* and log records it got to; the catch block turns a failure into the     *)
(* response.                                                               *)
(***************************************************************************)
LogEntry(level, context, msg) == [level |-> level, context |-> context, msg |-> msg]
DbOp(op, data) == [op |-> op, data |-> data]
Ran(res, dbOps, logs) == [res |-> res, db |-> dbOps, log |-> logs]

User(email, name) == [t |-> "object", id |-> "u1", email |-> email, name |-> name]

\* a prisma call: the operation reaches the database, then resolves to the
\* row or rejects with whatever the database layer throws
Prisma(op, data, row, dbThrows) ==
  Ran(IF dbThrows = None THEN Return(row) ELSE Throw(Get(dbThrows)), <<DbOp(op, data)>>, <<>>)

\* the row created first and the address validated afterwards
createUser_ValidateLate(data, dbThrows) ==
  LET required == validateRequired(data.email, "email") IN
  IF required.kind = "throw" THEN Ran(required, <<>>, <<>>) ELSE
  LET name == validateRequired(data.name, "name") IN
  IF name.kind = "throw" THEN Ran(name, <<>>, <<>>) ELSE
  LET created == Prisma("user.create", [email |-> required.value, name |-> name.value],
                        User(required.value, name.value), dbThrows)
      email == validateEmail(required.value) IN
  IF created.res.kind = "throw" THEN created ELSE
  IF email.kind = "throw" THEN Ran(email, created.db, <<>>) ELSE created

\* AI Coding Guidelines, core principle 1
createUser(data, dbThrows) ==
  LET required == validateRequired(data.email, "email") IN
  IF required.kind = "throw" THEN Ran(required, <<>>, <<>>) ELSE
  LET email == validateEmail(required.value) IN
  IF email.kind = "throw" THEN Ran(email, <<>>, <<>>) ELSE
  LET name == validateRequired(data.name, "name") IN
  IF name.kind = "throw" THEN Ran(name, <<>>, <<>>) ELSE
  Prisma("user.create", [email |-> email.value, name |-> name.value],
         User(email.value, name.value), dbThrows)

\* the caught failure's own message put in the response whatever its kind
RouteCatch_Leaky(error, label) ==
  IF isAppError(error)
  THEN [response |-> ResponseJson(errorResponse(error.message, error.code),
                                  Get(error.statusCode)),
        log |-> <<LogEntry("warn", [error |-> error, code |-> error.code], error.message)>>]
  ELSE [response |-> ResponseJson(errorResponse(error.message, None), 500),
        log |-> <<LogEntry("error", [error |-> error], label)>>]

\* Error Handling Guide, API route handler pattern: the catch block
RouteCatch(error, label) ==
  IF isAppError(error)
  THEN [response |-> ResponseJson(errorResponse(error.message, error.code),
                                  Get(error.statusCode)),
        log |-> <<LogEntry("warn", [error |-> error, code |-> error.code], error.message)>>]
  ELSE [response |-> ResponseJson(errorResponse("Internal server error", None), 500),
        log |-> <<LogEntry("error", [error |-> error], label)>>]

\* AI Coding Guidelines, API route handler: the catch block (no warn record)
QuickRouteCatch(error) ==
  IF isAppError(error)
  THEN [response |-> ResponseJson(errorResponse(error.message, error.code),
                                  Get(error.statusCode)),
        log |-> <<>>]
  ELSE [response |-> ResponseJson(errorResponse("Internal server error", None), 500),
        log |-> <<LogEntry("error", [error |-> error], "Unexpected error")>>]

\* server actions: only a NotFoundError keeps its message and code
ActionCatch(error, userId, label) ==
  IF InstanceOf(error, "NotFoundError")
  THEN [response |-> ActionResult([success |-> FALSE, error |-> error.message,
                                   code |-> error.code]),
        log |-> <<>>]
  ELSE [response |-> ActionResult([success |-> FALSE, error |-> label, code |-> None]),
        log |-> <<LogEntry("error", [error |-> error, userId |-> userId], label)>>]

\* request.json(): the parsed body, or a SyntaxError for a malformed one
RequestJson(req) ==
  IF req.body = None
  THEN Throw(NativeError("SyntaxError", "Unexpected end of JSON input"))
  ELSE Return(Get(req.body))

\* Error Handling Guide, POST: the try block
PostTry(req) ==
  LET parsed == RequestJson(req) IN
  IF parsed.kind = "throw" THEN Ran(parsed, <<>>, <<>>) ELSE
  LET body == parsed.value
      email == validateRequired(body.email, "email") IN
  IF email.kind = "throw" THEN Ran(email, <<>>, <<>>) ELSE
  LET name == validateRequired(body.name, "name") IN
  IF name.kind = "throw" THEN Ran(name, <<>>, <<>>) ELSE
  LET created == createUser([email |-> email.value, name |-> name.value], req.dbThrows) IN
  IF created.res.kind = "throw" THEN created ELSE
  Ran(created.res, created.db,
      <<LogEntry("info", [userId |-> created.res.value.id], "User created")>>)

\* AI Coding Guidelines, POST: the try block; createUser(email) is the
\* business logic, which reaches the database
QuickPostTry(req) ==
  LET parsed == RequestJson(req) IN
  IF parsed.kind = "throw" THEN Ran(parsed, <<>>, <<>>) ELSE
  LET body == parsed.value
      email == validateRequired(body.email, "email") IN
  IF email.kind = "throw" THEN Ran(email, <<>>, <<>>) ELSE
  LET created == Prisma("user.create", [email |-> email.value],
                        User(email.value, Undefined), req.dbThrows) IN
  IF created.res.kind = "throw" THEN created ELSE
  Ran(created.res, created.db,
      <<LogEntry("info", [userId |-> created.res.value.id], "User created")>>)

\* Error Handling Guide, deleteUser: the try block
DeleteUserTry(req) ==
  LET userId == validateRequired(req.userId, "userId") IN
  IF userId.kind = "throw" THEN Ran(userId, <<>>, <<>>) ELSE
  LET deleted == Prisma("user.delete", [id |-> req.userId], Undefined, req.dbThrows) IN
  IF deleted.res.kind = "throw" THEN deleted ELSE
  Ran(deleted.res, deleted.db, <<LogEntry("info", [userId |-> req.userId], "User deleted")>>)

\* AI Coding Guidelines, updateUser: the try block
UpdateUserTry(req) ==
  LET userId == validateRequired(req.userId, "userId") IN
  IF userId.kind = "throw" THEN Ran(userId, <<>>, <<>>) ELSE
  LET name == validateRequired(req.data.name, "name") IN
  IF name.kind = "throw" THEN Ran(name, <<>>, <<>>) ELSE
  LET updated == Prisma("user.update", [id |-> req.userId, name |-> name.value],
                        User(Undefined, name.value), req.dbThrows) IN
  IF updated.res.kind = "throw" THEN updated ELSE
  Ran(updated.res, updated.db, <<LogEntry("info", [userId |-> req.userId], "User updated")>>)

(***************************************************************************)
(* Requests: the request is drawn first, then its handler runs on it       *)
(***************************************************************************)
\* what business logic and the layers below it can throw
Throwables ==
  {ValidationError("Email is required"),
   NotFoundError("User"),
   UnauthorizedError(None),
   ForbiddenError(Some("Admin access required")),
   ConflictError("Email already registered"),
   AppError("Rate limit exceeded", "RATE_LIMITED", None),
   AppError("Upstream failed", "BAD_GATEWAY", Some(502)),
   NativeError("Error", "connect ECONNREFUSED 10.0.0.5:5432"),
   NativeError("TypeError", "Cannot read properties of undefined"),
   PlainObj("password authentication failed", "P1000", 500)}

BodyEmails == Values \cup {Str(s) : s \in ExampleEmails}
BodyNames == {Undefined, Null, Str(<<>>), Str(<<"a">>)}
UserIds == {Undefined, Null, Str(<<>>), Str(<<"a">>), Num(0)}

Requests ==
  [handler : {"POST"}, body : Optional([email : BodyEmails, name : BodyNames]),
   dbThrows : Optional(Throwables)]
  \cup [handler : {"QuickPOST"}, body : Optional([email : BodyEmails]),
        dbThrows : Optional(Throwables)]
  \cup [handler : {"deleteUser"}, userId : UserIds, dbThrows : Optional(Throwables)]
  \cup [handler : {"updateUser"}, userId : UserIds, data : [name : BodyNames],
        dbThrows : Optional(Throwables)]

\* Error Handling Guide: export async function POST(request)
POST ==
  /\ request.handler = "POST" /\ response = NoResponse
  /\ LET ran == PostTry(request)
         caught == RouteCatch(ran.res.error, "Unexpected error in POST /api/users")
     IN /\ outcome' = ran.res
        /\ db' = ran.db
        /\ IF ran.res.kind = "return"
           THEN /\ response' = ResponseJson(successResponse(ran.res.value), 201)
                /\ log' = ran.log
           ELSE /\ response' = caught.response
                /\ log' = ran.log \o caught.log
  /\ UNCHANGED <<call, errors, request, client, shared>>

\* AI Coding Guidelines: export async function POST(request)
QuickPOST ==
  /\ request.handler = "QuickPOST" /\ response = NoResponse
  /\ LET ran == QuickPostTry(request)
         caught == QuickRouteCatch(ran.res.error)
     IN /\ outcome' = ran.res
        /\ db' = ran.db
        /\ IF ran.res.kind = "return"
           THEN /\ response' = ResponseJson(successResponse(ran.res.value), 201)
                /\ log' = ran.log
           ELSE /\ response' = caught.response
                /\ log' = ran.log \o caught.log
  /\ UNCHANGED <<call, errors, request, client, shared>>

\* Error Handling Guide: export async function deleteUser(userId)
DeleteUser ==
  /\ request.handler = "deleteUser" /\ response = NoResponse
  /\ LET ran == DeleteUserTry(request)
         caught == ActionCatch(ran.res.error, request.userId, "Failed to delete user")
     IN /\ outcome' = ran.res
        /\ db' = ran.db
        /\ IF ran.res.kind = "return"
           THEN /\ response' = ActionResult([success |-> TRUE, data |-> Undefined])
                /\ log' = ran.log
           ELSE /\ response' = caught.response
                /\ log' = ran.log \o caught.log
  /\ UNCHANGED <<call, errors, request, client, shared>>

\* AI Coding Guidelines: export async function updateUser(userId, data)
UpdateUser ==
  /\ request.handler = "updateUser" /\ response = NoResponse
  /\ LET ran == UpdateUserTry(request)
         caught == ActionCatch(ran.res.error, request.userId, "Failed to update user")
     IN /\ outcome' = ran.res
        /\ db' = ran.db
        /\ IF ran.res.kind = "return"
           THEN /\ response' = ActionResult([success |-> TRUE, data |-> ran.res.value])
                /\ log' = ran.log
           ELSE /\ response' = caught.response
                /\ log' = ran.log \o caught.log
  /\ UNCHANGED <<call, errors, request, client, shared>>

Init ==
  /\ call = NoCall
  /\ outcome = Pending
  /\ errors = <<>>
  /\ request \in Requests
  /\ response = NoResponse
  /\ log = <<>>
  /\ db = <<>>
  /\ client = NoClient
  /\ shared = NoShared

Next ==
  \/ POST
  \/ QuickPOST
  \/ DeleteUser
  \/ UpdateUser

Spec == Init /\ [][Next]_vars

(***************************************************************************)
(* The taxonomy: error instances are constructed and stay alive            *)
(***************************************************************************)
Messages == {"Email is required", "User"}
CustomCodes == {"RATE_LIMITED", "VALIDATION_ERROR"}
CustomStatusCodes == {418, 400}

NewAppError ==
  /\ Len(errors) < MaxErrors
  /\ \E m \in Messages, c \in CustomCodes, sc \in Optional(CustomStatusCodes) :
       errors' = Append(errors, AppError(m, c, sc))
  /\ UNCHANGED <<call, outcome, request, response, log, db, client, shared>>

NewValidationError ==
  /\ Len(errors) < MaxErrors
  /\ \E m \in Messages : errors' = Append(errors, ValidationError(m))
  /\ UNCHANGED <<call, outcome, request, response, log, db, client, shared>>

NewNotFoundError ==
  /\ Len(errors) < MaxErrors
  /\ \E resource \in Messages : errors' = Append(errors, NotFoundError(resource))
  /\ UNCHANGED <<call, outcome, request, response, log, db, client, shared>>

NewUnauthorizedError ==
  /\ Len(errors) < MaxErrors
  /\ \E m \in Optional(Messages) : errors' = Append(errors, UnauthorizedError(m))
  /\ UNCHANGED <<call, outcome, request, response, log, db, client, shared>>

NewForbiddenError ==
  /\ Len(errors) < MaxErrors
  /\ \E m \in Optional(Messages) : errors' = Append(errors, ForbiddenError(m))
  /\ UNCHANGED <<call, outcome, request, response, log, db, client, shared>>

NewConflictError ==
  /\ Len(errors) < MaxErrors
  /\ \E m \in Messages : errors' = Append(errors, ConflictError(m))
  /\ UNCHANGED <<call, outcome, request, response, log, db, client, shared>>

\* throw new Error('Not found'): a failure outside the taxonomy
NewError ==
  /\ Len(errors) < MaxErrors
  /\ \E m \in Messages : errors' = Append(errors, NativeError("Error", m))
  /\ UNCHANGED <<call, outcome, request, response, log, db, client, shared>>

InitTaxonomy ==
  /\ call = NoCall
  /\ outcome = Pending
  /\ errors = <<>>
  /\ request = NoRequest
  /\ response = NoResponse
  /\ log = <<>>
  /\ db = <<>>
  /\ client = NoClient
  /\ shared = NoShared

NextTaxonomy ==
  \/ NewAppError
  \/ NewValidationError
  \/ NewNotFoundError
  \/ NewUnauthorizedError
  \/ NewForbiddenError
  \/ NewConflictError
  \/ NewError

SpecTaxonomy == InitTaxonomy /\ [][NextTaxonomy]_vars

(***************************************************************************)
(* Calls of the type guards (lib/guards.ts, lib/errors.ts) and of the      *)
(* envelope helpers (types/api.ts): the call is drawn first, then the      *)
(* function runs on it                                                     *)
(***************************************************************************)
\* every value a guard can be handed: request-derived values and failures
GuardValues == Values \cup Throwables

\* the payload of a PaginatedResponse: the type holds five fields and
\* relates none of them
PaginatedPayload(items, total, page, pageSize, totalPages) ==
  [t |-> "page", items |-> items, total |-> total, page |-> page,
   pageSize |-> pageSize, totalPages |-> totalPages]

\* the payload of the type's example, for a list of two users
ExamplePayload == PaginatedPayload(<<Null, Null>>, 100, 1, 20, 5)

PaginatedPayloads ==
  {PaginatedPayload(items, total, 1, pageSize, totalPages) :
     items \in UNION {[1..k -> {Null}] : k \in 0..MaxArrLen},
     total \in 0..MaxNum, pageSize \in 0..MaxNum, totalPages \in 0..MaxNum}
  \cup {ExamplePayload}

LibraryCalls ==
  [op : {"isNotNull", "isDefined", "isString", "isNumber", "isBoolean",
         "isObject", "isArray", "isError", "isAppError"},
   value : GuardValues]
  \cup [op : {"assertNever"}, value : GuardValues]
  \cup [op : {"successResponse"}, data : Values \cup PaginatedPayloads]
  \cup [op : {"errorResponse"}, error : Messages, code : Optional(CustomCodes)]

IsNotNull ==
  /\ call.op = "isNotNull" /\ outcome = Pending
  /\ outcome' = Return(Bool(isNotNull(call.value)))
  /\ UNCHANGED <<call, errors, request, response, log, db, client, shared>>

IsDefined ==
  /\ call.op = "isDefined" /\ outcome = Pending
  /\ outcome' = Return(Bool(isDefined(call.value)))
  /\ UNCHANGED <<call, errors, request, response, log, db, client, shared>>

IsString ==
  /\ call.op = "isString" /\ outcome = Pending
  /\ outcome' = Return(Bool(isString(call.value)))
  /\ UNCHANGED <<call, errors, request, response, log, db, client, shared>>

IsNumber ==
  /\ call.op = "isNumber" /\ outcome = Pending
  /\ outcome' = Return(Bool(isNumber(call.value)))
  /\ UNCHANGED <<call, errors, request, response, log, db, client, shared>>

IsBoolean ==
  /\ call.op = "isBoolean" /\ outcome = Pending
  /\ outcome' = Return(Bool(isBoolean(call.value)))
  /\ UNCHANGED <<call, errors, request, response, log, db, client, shared>>

IsObject ==
  /\ call.op = "isObject" /\ outcome = Pending
  /\ outcome' = Return(Bool(isObject(call.value)))
  /\ UNCHANGED <<call, errors, request, response, log, db, client, shared>>

IsArray ==
  /\ call.op = "isArray" /\ outcome = Pending
  /\ outcome' = Return(Bool(isArray(call.value)))
  /\ UNCHANGED <<call, errors, request, response, log, db, client, shared>>

IsError ==
  /\ call.op = "isError" /\ outcome = Pending
  /\ outcome' = Return(Bool(isError(call.value)))
  /\ UNCHANGED <<call, errors, request, response, log, db, client, shared>>

IsAppError ==
  /\ call.op = "isAppError" /\ outcome = Pending
  /\ outcome' = Return(Bool(isAppError(call.value)))
  /\ UNCHANGED <<call, errors, request, response, log, db, client, shared>>

AssertNever ==
  /\ call.op = "assertNever" /\ outcome = Pending
  /\ outcome' = assertNever(call.value)
  /\ UNCHANGED <<call, errors, request, response, log, db, client, shared>>

SuccessResponse ==
  /\ call.op = "successResponse" /\ outcome = Pending
  /\ outcome' = Return(successResponse(call.data))
  /\ UNCHANGED <<call, errors, request, response, log, db, client, shared>>

ErrorResponse ==
  /\ call.op = "errorResponse" /\ outcome = Pending
  /\ outcome' = Return(errorResponse(call.error, call.code))
  /\ UNCHANGED <<call, errors, request, response, log, db, client, shared>>

InitLibrary ==
  /\ call \in LibraryCalls
  /\ outcome = Pending
  /\ errors = <<>>
  /\ request = NoRequest
  /\ response = NoResponse
  /\ log = <<>>
  /\ db = <<>>
  /\ client = NoClient
  /\ shared = NoShared

NextLibrary ==
  \/ IsNotNull
  \/ IsDefined
  \/ IsString
  \/ IsNumber
  \/ IsBoolean
  \/ IsObject
  \/ IsArray
  \/ IsError
  \/ IsAppError
  \/ AssertNever
  \/ SuccessResponse
  \/ ErrorResponse

SpecLibrary == InitLibrary /\ [][NextLibrary]_vars

(***************************************************************************)
(* The route-protection middleware (Setup Plan, src/middleware.ts).  A     *)
(* path is the sequence of its pieces, "/" first; the pieces are the       *)
(* words the middleware and its matcher look for, and "x" for any other    *)
(* text.  The matcher decides whether the middleware runs at all.          *)
(***************************************************************************)
MaxPathLen == 3
MaxRedirects == 3

PathPieces ==
  {"/", "dashboard", "login", "register", "x", ".png", "favicon.ico",
   "_next/static", "_next/image"}

Paths == {<<"/">> \o rest : rest \in UNION {[1..k -> PathPieces] : k \in 0..MaxPathLen}}

\* String.prototype.startsWith
StartsWith(path, prefix) ==
  Len(path) >= Len(prefix) /\ SubSeq(path, 1, Len(prefix)) = prefix

\* config.matcher: '/((?!_next/static|_next/image|favicon.ico|.*\.(?:svg|png|jpg|jpeg|gif|webp)$).*)'
Matcher(path) ==
  LET rest == Tail(path)
  IN ~ \/ StartsWith(rest, <<"_next/static">>)
       \/ StartsWith(rest, <<"_next/image">>)
       \/ StartsWith(rest, <<"favicon.ico">>)
       \/ (rest # <<>> /\ rest[Len(rest)] = ".png")

\* NextResponse.next({ request }) with the cookies set on it
NextResponseNext(cookies) == [kind |-> "next", cookies |-> cookies]
\* NextResponse.redirect(url): a new response
NextResponseRedirect(pathname) ==
  [kind |-> "redirect", location |-> pathname, cookies |-> {}]

\* supabase.auth.getUser() calls setAll when it refreshes the session: the
\* cookies land on a new supabaseResponse
SessionCookies(req) == IF req.refresh THEN {"sb-access-token"} ELSE {}

\* the protected prefix compared for equality instead of startsWith
middleware_ExactPath(req) ==
  LET supabaseResponse == NextResponseNext(SessionCookies(req))
  IN IF req.user = None /\ req.path = <<"/", "dashboard">>
     THEN NextResponseRedirect(<<"/", "login">>)
     ELSE IF req.user # None /\ req.path \in {<<"/", "login">>, <<"/", "register">>}
     THEN NextResponseRedirect(<<"/", "dashboard">>)
     ELSE supabaseResponse

\* every page but the homepage protected, the login page among them
middleware_LoginProtected(req) ==
  LET supabaseResponse == NextResponseNext(SessionCookies(req))
  IN IF req.user = None /\ req.path # <<"/">>
     THEN NextResponseRedirect(<<"/", "login">>)
     ELSE IF req.user # None /\ req.path \in {<<"/", "login">>, <<"/", "register">>}
     THEN NextResponseRedirect(<<"/", "dashboard">>)
     ELSE supabaseResponse

middleware(req) ==
  LET supabaseResponse == NextResponseNext(SessionCookies(req))
  IN IF req.user = None /\ StartsWith(req.path, <<"/", "dashboard">>)
     THEN NextResponseRedirect(<<"/", "login">>)
     ELSE IF req.user # None /\ req.path \in {<<"/", "login">>, <<"/", "register">>}
     THEN NextResponseRedirect(<<"/", "dashboard">>)
     ELSE supabaseResponse

PageRequests ==
  [handler : {"middleware"}, path : Paths, user : Optional({"user-1"}), refresh : BOOLEAN,
   redirects : {0}]

\* a request that the matcher selects goes through the middleware
Middleware ==
  /\ request.handler = "middleware" /\ response = NoResponse
  /\ Matcher(request.path)
  /\ response' = middleware(request)
  /\ UNCHANGED <<call, outcome, errors, request, log, db, client, shared>>

\* a request that the matcher leaves out reaches its route directly
Unmatched ==
  /\ request.handler = "middleware" /\ response = NoResponse
  /\ ~Matcher(request.path)
  /\ response' = NextResponseNext({})
  /\ UNCHANGED <<call, outcome, errors, request, log, db, client, shared>>

\* the browser follows a redirect: a new request for the location, with the
\* session it had
FollowRedirect ==
  /\ request.handler = "middleware" /\ response.kind = "redirect"
  /\ request.redirects < MaxRedirects
  /\ request' = [request EXCEPT !.path = response.location, !.redirects = @ + 1]
  /\ response' = NoResponse
  /\ UNCHANGED <<call, outcome, errors, log, db, client, shared>>

InitMiddleware ==
  /\ call = NoCall
  /\ outcome = Pending
  /\ errors = <<>>
  /\ request \in PageRequests
  /\ response = NoResponse
  /\ log = <<>>
  /\ db = <<>>
  /\ client = NoClient
  /\ shared = NoShared

NextMiddleware ==
  \/ Middleware
  \/ Unmatched
  \/ FollowRedirect

SpecMiddleware == InitMiddleware /\ [][NextMiddleware]_vars

(***************************************************************************)
(* The persisted user store (store/user-store.ts) and the hook that        *)
(* rehydrates it (hooks/use-hydration.ts), for one client component that   *)
(* is gated on the hook.  The store persists to localStorage, which is     *)
(* synchronous: rehydrate() has read the storage and merged it into the    *)
(* store when it returns.                                                  *)
(***************************************************************************)
MaxSets == 2

StoreUsers == {"ann", "bob"}
\* user: any | null
UserStates == {Null} \cup {Str(<<u>>) : u \in StoreUsers}

\* create()(persist(..., { name: 'user-storage', skipHydration: true })):
\* the initial state, nothing read from the storage
CreateStore == [user |-> Null, hasHydrated |-> FALSE]

\* the browser before the component mounts; storage is the item
\* 'user-storage' of localStorage
ClientStart(storage) ==
  [phase |-> "browser", mounted |-> FALSE, hydrated |-> FALSE,
   effectPending |-> FALSE, microtasks |-> <<>>, dirty |-> FALSE,
   store |-> CreateStore, storage |-> storage,
   storageReads |-> 0, rehydrateCalls |-> 0, sets |-> 0, renders |-> <<>>]

\* what the gated component puts on the screen: the hook's value, and the
\* store's user once the hook allows it
Rendering(c) ==
  [hydrated |-> c.hydrated,
   shown |-> IF c.hydrated THEN Some(c.store.user) ELSE None,
   storeHydrated |-> c.store.hasHydrated]

\* useUserStore.persist.rehydrate(): getItem, merge, hasHydrated
rehydrate(c) ==
  [c EXCEPT !.rehydrateCalls = @ + 1,
            !.storageReads = @ + 1,
            !.store = [user |-> IF c.storage = None THEN c.store.user ELSE Get(c.storage),
                       hasHydrated |-> TRUE],
            !.dirty = c.mounted]

\* an effect that marks the hook hydrated and leaves the store alone
useHydrationEffect_NoRehydrate(c) ==
  [c EXCEPT !.effectPending = FALSE, !.microtasks = Append(@, "setHydrated(true)")]

\* an effect that rehydrates the store and never marks the hook hydrated
useHydrationEffect_NoMicrotask(c) ==
  [rehydrate(c) EXCEPT !.effectPending = FALSE]

\* the body of useEffect(() => { ... }, [])
useHydrationEffect(c) ==
  [rehydrate(c) EXCEPT !.effectPending = FALSE,
                       !.microtasks = Append(@, "setHydrated(true)")]

\* set({ user }) under persist: the state changes and is written through
storeSet(c, user) ==
  [c EXCEPT !.store.user = user, !.storage = Some(user), !.sets = @ + 1,
            !.dirty = c.mounted]

\* the component mounts: its first render, with useState(false), and its
\* mount effect scheduled
Mount ==
  /\ client.phase = "browser" /\ ~client.mounted
  /\ client' = [client EXCEPT !.mounted = TRUE, !.effectPending = TRUE,
                              !.renders = Append(@, Rendering(client))]
  /\ UNCHANGED <<call, outcome, errors, request, response, log, db, shared>>

\* the mount effect runs
Effect ==
  /\ client.phase = "browser" /\ client.effectPending
  /\ client' = useHydrationEffect(client)
  /\ UNCHANGED <<call, outcome, errors, request, response, log, db, shared>>

\* the queued microtask runs: setHydrated(true)
Microtask ==
  /\ client.phase = "browser" /\ client.microtasks # <<>>
  /\ client' = [client EXCEPT !.microtasks = Tail(@), !.hydrated = TRUE, !.dirty = TRUE]
  /\ UNCHANGED <<call, outcome, errors, request, response, log, db, shared>>

\* the component renders again after a state or store change
Render ==
  /\ client.phase = "browser" /\ client.mounted /\ client.dirty
  /\ client.microtasks = <<>>
  /\ client' = [client EXCEPT !.dirty = FALSE, !.renders = Append(@, Rendering(client))]
  /\ UNCHANGED <<call, outcome, errors, request, response, log, db, shared>>

\* some code of the page calls setUser(user); it cannot run between an
\* effect and the microtask that the effect queued
SetUser ==
  /\ client.phase = "browser" /\ client.microtasks = <<>>
  /\ client.sets < MaxSets
  /\ \E u \in StoreUsers : client' = storeSet(client, Str(<<u>>))
  /\ UNCHANGED <<call, outcome, errors, request, response, log, db, shared>>

ClearUser ==
  /\ client.phase = "browser" /\ client.microtasks = <<>>
  /\ client.sets < MaxSets
  /\ client' = storeSet(client, Null)
  /\ UNCHANGED <<call, outcome, errors, request, response, log, db, shared>>

InitHydration ==
  /\ call = NoCall
  /\ outcome = Pending
  /\ errors = <<>>
  /\ request = NoRequest
  /\ response = NoResponse
  /\ log = <<>>
  /\ db = <<>>
  /\ client \in {ClientStart(storage) : storage \in Optional(UserStates)}
  /\ shared = NoShared

NextHydration ==
  \/ Mount
  \/ Effect
  \/ Microtask
  \/ Render
  \/ SetUser
  \/ ClearUser

SpecHydration == InitHydration /\ [][NextHydration]_vars

\* the user leaves the page: the component unmounts for good; a state
\* update that arrives afterwards renders nothing
Unmount ==
  /\ client.phase = "browser" /\ client.mounted
  /\ client' = [client EXCEPT !.phase = "left", !.mounted = FALSE]
  /\ UNCHANGED <<call, outcome, errors, request, response, log, db, shared>>

NextHydrationLive ==
  \/ NextHydration
  \/ Unmount

\* React runs a scheduled effect after the commit, the event loop drains the
\* microtask queue before it takes the next task, and React renders a
\* mounted component again after a state update: none of the three waits
\* forever.  Nothing obliges the page to mount, to change the store or to
\* unmount the component.
SpecHydrationLive ==
  /\ InitHydration
  /\ [][NextHydrationLive]_vars
  /\ WF_vars(Effect)
  /\ WF_vars(Microtask)
  /\ WF_vars(Render)

(***************************************************************************)
(* Calls from concurrent request contexts.  Every helper is synchronous,   *)
(* so calls interleave as wholes, in any order.  The one object of the     *)
(* helpers that has state of its own is the RegExp of validateEmail        *)
(* (lastIndex), which is made explicit here.                               *)
(***************************************************************************)
MaxContexts == 2
Contexts == 1..MaxContexts

\* a module-level /.../g, whose lastIndex outlives the call
EmailRegex_SharedGlobal == [global |-> TRUE, scope |-> "module"]

\* const emailRegex = /^[^\s@]+@[^\s@]+\.[^\s@]+$/ inside the function: a new
\* object for each call, no g flag
EmailRegex == [global |-> FALSE, scope |-> "call"]

\* RegExp.prototype.test for the anchored pattern: with the g flag the match
\* starts at lastIndex, which "^" allows at 0 only, and lastIndex moves
RegExpTest(re, lastIndex, s) ==
  IF re.global
  THEN IF lastIndex = 0 /\ emailRegexTest(s)
       THEN [match |-> TRUE, lastIndex |-> Len(s)]
       ELSE [match |-> FALSE, lastIndex |-> 0]
  ELSE [match |-> emailRegexTest(s), lastIndex |-> lastIndex]

\* validateEmail with its RegExp object: the outcome and the module state
\* the call leaves behind
validateEmailCall(email, module) ==
  LET re == EmailRegex
      start == IF re.scope = "module" THEN module.lastIndex ELSE 0
  IN IF ~isString(email)
     THEN [outcome |-> Throw(ValidationError("Email must be a string")), shared |-> module]
     ELSE LET tested == RegExpTest(re, start, email.s)
          IN [outcome |-> IF ~tested.match
                          THEN Throw(ValidationError("Invalid email format"))
                          ELSE Return(Str(Trim(ToLowerCase(email.s)))),
              shared |-> IF re.scope = "module"
                         THEN [module EXCEPT !.lastIndex = tested.lastIndex]
                         ELSE module]

ConcurrentCalls ==
  [op : {"validateEmail"},
   value : {Null, Str(<<"a">>), Str(<<"a", "@", "a", ".", "a">>),
            Str(<<"A", "@", "B", ".", "c", "o", "m">>)}]
  \cup [op : {"validateRequired"}, value : {Undefined, Str(<<>>)}, fieldName : {"email"}]
  \cup [op : {"isString", "isNotNull"}, value : {Null, Str(<<"a">>)}]
  \cup [op : {"ValidationError"}, message : Messages]
  \cup [op : {"errorResponse"}, error : Messages, code : {None}]

CallValidateEmail ==
  \E ctx \in Contexts :
    /\ call[ctx].op = "validateEmail" /\ outcome[ctx] = Pending
    /\ outcome' = [outcome EXCEPT ![ctx] = validateEmailCall(call[ctx].value, shared).outcome]
    /\ shared' = validateEmailCall(call[ctx].value, shared).shared
    /\ UNCHANGED <<call, errors, request, response, log, db, client>>

CallValidateRequired ==
  \E ctx \in Contexts :
    /\ call[ctx].op = "validateRequired" /\ outcome[ctx] = Pending
    /\ outcome' = [outcome EXCEPT
                     ![ctx] = validateRequired(call[ctx].value, call[ctx].fieldName)]
    /\ UNCHANGED <<call, errors, request, response, log, db, client, shared>>

CallGuard ==
  \E ctx \in Contexts :
    /\ call[ctx].op \in {"isString", "isNotNull"} /\ outcome[ctx] = Pending
    /\ outcome' = [outcome EXCEPT
                     ![ctx] = Return(Bool(IF call[ctx].op = "isString"
                                          THEN isString(call[ctx].value)
                                          ELSE isNotNull(call[ctx].value)))]
    /\ UNCHANGED <<call, errors, request, response, log, db, client, shared>>

CallErrorConstructor ==
  \E ctx \in Contexts :
    /\ call[ctx].op = "ValidationError" /\ outcome[ctx] = Pending
    /\ outcome' = [outcome EXCEPT ![ctx] = Return(ValidationError(call[ctx].message))]
    /\ UNCHANGED <<call, errors, request, response, log, db, client, shared>>

CallErrorResponse ==
  \E ctx \in Contexts :
    /\ call[ctx].op = "errorResponse" /\ outcome[ctx] = Pending
    /\ outcome' = [outcome EXCEPT
                     ![ctx] = Return(errorResponse(call[ctx].error, call[ctx].code))]
    /\ UNCHANGED <<call, errors, request, response, log, db, client, shared>>

InitConcurrent ==
  /\ call \in [Contexts -> ConcurrentCalls]
  /\ outcome = [ctx \in Contexts |-> Pending]
  /\ errors = <<>>
  /\ request = NoRequest
  /\ response = NoResponse
  /\ log = <<>>
  /\ db = <<>>
  /\ client = NoClient
  /\ shared = NoShared

NextConcurrent ==
  \/ CallValidateEmail
  \/ CallValidateRequired
  \/ CallGuard
  \/ CallErrorConstructor
  \/ CallErrorResponse

SpecConcurrent == InitConcurrent /\ [][NextConcurrent]_vars

(***************************************************************************)
(* lib/logger.ts: the level of the logger is fixed from the environment    *)
(* when the module loads; a record is written when its level is at least   *)
(* the logger's                                                            *)
(***************************************************************************)
Levels == {"trace", "debug", "info", "warn", "error", "fatal"}

\* pino's level values
LevelValue ==
  [trace |-> 10, debug |-> 20, info |-> 30, warn |-> 40, error |-> 50, fatal |-> 60]

\* process.env: a variable is unset, or set to a string ("" included)
Environments ==
  [NODE_ENV : Optional({"development", "production", "test"}),
   LOG_LEVEL : Optional(Levels \cup {""})]

isDevelopment(env) == env.NODE_ENV = Some("development")

\* process.env.LOG_LEVEL || (isDevelopment ? 'debug' : 'info')
logLevel(env) ==
  IF env.LOG_LEVEL # None /\ Get(env.LOG_LEVEL) # ""
  THEN Get(env.LOG_LEVEL)
  ELSE IF isDevelopment(env) THEN "debug" ELSE "info"

\* logger[level](context, msg) on pino({ level: logLevel, base: { env } })
loggerWrite(env, level, context, msg) ==
  IF LevelValue[level] >= LevelValue[logLevel(env)]
  THEN <<[LogEntry(level, context, msg) EXCEPT !.context = [env |-> env.NODE_ENV, ctx |-> context]]>>
  ELSE <<>>

LoggerCalls ==
  [op : {"logger." \o level : level \in Levels}, env : Environments,
   context : {"userId"}, msg : {"User logged in"}]

LoggerTrace ==
  /\ call.op = "logger.trace" /\ outcome = Pending
  /\ log' = log \o loggerWrite(call.env, "trace", call.context, call.msg)
  /\ outcome' = Return(Undefined)
  /\ UNCHANGED <<call, errors, request, response, db, client, shared>>

LoggerDebug ==
  /\ call.op = "logger.debug" /\ outcome = Pending
  /\ log' = log \o loggerWrite(call.env, "debug", call.context, call.msg)
  /\ outcome' = Return(Undefined)
  /\ UNCHANGED <<call, errors, request, response, db, client, shared>>

LoggerInfo ==
  /\ call.op = "logger.info" /\ outcome = Pending
  /\ log' = log \o loggerWrite(call.env, "info", call.context, call.msg)
  /\ outcome' = Return(Undefined)
  /\ UNCHANGED <<call, errors, request, response, db, client, shared>>

LoggerWarn ==
  /\ call.op = "logger.warn" /\ outcome = Pending
  /\ log' = log \o loggerWrite(call.env, "warn", call.context, call.msg)
  /\ outcome' = Return(Undefined)
  /\ UNCHANGED <<call, errors, request, response, db, client, shared>>

LoggerError ==
  /\ call.op = "logger.error" /\ outcome = Pending
  /\ log' = log \o loggerWrite(call.env, "error", call.context, call.msg)
  /\ outcome' = Return(Undefined)
  /\ UNCHANGED <<call, errors, request, response, db, client, shared>>

LoggerFatal ==
  /\ call.op = "logger.fatal" /\ outcome = Pending
  /\ log' = log \o loggerWrite(call.env, "fatal", call.context, call.msg)
  /\ outcome' = Return(Undefined)
  /\ UNCHANGED <<call, errors, request, response, db, client, shared>>

InitLogger ==
  /\ call \in LoggerCalls
  /\ outcome = Pending
  /\ errors = <<>>
  /\ request = NoRequest
  /\ response = NoResponse
  /\ log = <<>>
  /\ db = <<>>
  /\ client = NoClient
  /\ shared = NoShared

NextLogger ==
  \/ LoggerTrace
  \/ LoggerDebug
  \/ LoggerInfo
  \/ LoggerWarn
  \/ LoggerError
  \/ LoggerFatal

SpecLogger == InitLogger /\ [][NextLogger]_vars

(***************************************************************************)
(* lib/seo.ts: page metadata.  Texts are strings; a property that is       *)
(* omitted, or a key that the result does not have, is the unset optional. *)
(***************************************************************************)
siteConfig ==
  [name |-> "Next.js 15 Starter Kit",
   description |-> "Production-ready Next.js 15 starter with Supabase, Prisma, and TypeScript",
   url |-> "http://localhost:3000",
   ogImage |-> "/og-image.jpg",
   twitterHandle |-> "@yourtwitterhandle"]

\* a string property used as a condition: set and not ""
Truthy(opt) == opt # None /\ Get(opt) # ""

\* a robots entry on every page, allowing what noindex does not forbid
robotsEntry_Always(noindex) == Some([index |-> ~noindex, follow |-> ~noindex])

\* ...(noindex && { robots: { index: false, follow: false } })
robotsEntry(noindex) ==
  IF noindex THEN Some([index |-> FALSE, follow |-> FALSE]) ELSE None

generateSEO(props) ==
  LET type == IF props.type = None THEN "website" ELSE Get(props.type)
      noindex == IF props.noindex = None THEN FALSE ELSE Get(props.noindex)
      pageTitle == IF Truthy(props.title)
                   THEN Get(props.title) \o " | " \o siteConfig.name
                   ELSE siteConfig.name
      pageDescription == IF Truthy(props.description)
                         THEN Get(props.description) ELSE siteConfig.description
      pageImage == IF Truthy(props.image)
                   THEN Get(props.image) ELSE siteConfig.url \o siteConfig.ogImage
      pageUrl == IF Truthy(props.url)
                 THEN siteConfig.url \o Get(props.url) ELSE siteConfig.url
  IN [title |-> pageTitle,
      description |-> pageDescription,
      applicationName |-> siteConfig.name,
      robots |-> robotsEntry(noindex),
      openGraph |->
        [type |-> type, title |-> pageTitle, description |-> pageDescription,
         url |-> pageUrl, siteName |-> siteConfig.name,
         images |-> <<[url |-> pageImage, width |-> 1200, height |-> 630,
                       alt |-> IF Truthy(props.title)
                               THEN Get(props.title) ELSE siteConfig.name]>>,
         publishedTime |-> IF type = "article" /\ Truthy(props.publishedTime)
                           THEN props.publishedTime ELSE None,
         authors |-> IF type = "article" THEN props.authors ELSE None],
      twitter |->
        [card |-> "summary_large_image", title |-> pageTitle,
         description |-> pageDescription, images |-> <<pageImage>>,
         creator |-> siteConfig.twitterHandle],
      keywords |-> props.tags,
      alternates |-> [canonical |-> pageUrl]]

generateBlogPostSEO(post) ==
  generateSEO([title |-> Some(post.title), description |-> Some(post.description),
               image |-> post.image, url |-> Some("/blog/" \o post.slug),
               type |-> Some("article"), publishedTime |-> Some(post.publishedTime),
               authors |-> post.authors, tags |-> post.tags, noindex |-> None])

Titles == {"", "Admin Page"}
NameLists == {<<>>, <<"John Doe">>}

SEOCalls ==
  [op : {"generateSEO"},
   props : [title : Optional(Titles), description : Optional({"Learn more"}),
            image : Optional({"/custom-image.jpg"}), url : Optional({"/test"}),
            type : Optional({"website", "article", "profile"}),
            publishedTime : Optional({"2024-01-15T10:00:00Z"}),
            authors : Optional(NameLists), tags : Optional(NameLists),
            noindex : Optional(BOOLEAN)]]
  \cup [op : {"generateBlogPostSEO"},
        post : [title : Titles, description : {"A comprehensive guide"},
                image : Optional({"/custom-image.jpg"}), slug : {"test-post"},
                publishedTime : {"2024-01-15T10:00:00Z"},
                authors : Optional(NameLists), tags : Optional(NameLists)]]

GenerateSEO ==
  /\ call.op = "generateSEO" /\ outcome = Pending
  /\ outcome' = Return(generateSEO(call.props))
  /\ UNCHANGED <<call, errors, request, response, log, db, client, shared>>

GenerateBlogPostSEO ==
  /\ call.op = "generateBlogPostSEO" /\ outcome = Pending
  /\ outcome' = Return(generateBlogPostSEO(call.post))
  /\ UNCHANGED <<call, errors, request, response, log, db, client, shared>>

InitSEO ==
  /\ call \in SEOCalls
  /\ outcome = Pending
  /\ errors = <<>>
  /\ request = NoRequest
  /\ response = NoResponse
  /\ log = <<>>
  /\ db = <<>>
  /\ client = NoClient
  /\ shared = NoShared

NextSEO ==
  \/ GenerateSEO
  \/ GenerateBlogPostSEO

SpecSEO == InitSEO /\ [][NextSEO]_vars

(***************************************************************************)
(* The homepage (app/page.tsx) and its counter demo.  The page keeps the   *)
(* count in component state; localStorage holds what the user store has    *)
(* written there, if anything.                                             *)
(***************************************************************************)
MaxClicks == 3
MaxReloads == 2

\* SystemStatusPage mounting: const [count, setCount] = useState(0)
PageLoad(storage, reloads, clicksBefore) ==
  [phase |-> "homepage", count |-> 0, clicks |-> 0, clicksBefore |-> clicksBefore,
   reloads |-> reloads, storage |-> storage]

\* onClick={() => setCount(count + 1)}, and the render that follows
ClickIncrement ==
  /\ client.phase = "homepage" /\ client.clicks < MaxClicks
  /\ client' = [client EXCEPT !.count = client.count + 1, !.clicks = @ + 1]
  /\ UNCHANGED <<call, outcome, errors, request, response, log, db, shared>>

\* the browser reloads the page: the component mounts anew, localStorage
\* is what it was
Reload ==
  /\ client.phase = "homepage" /\ client.reloads < MaxReloads
  /\ client' = PageLoad(client.storage, client.reloads + 1,
                        client.clicksBefore + client.clicks)
  /\ UNCHANGED <<call, outcome, errors, request, response, log, db, shared>>

InitCounter ==
  /\ call = NoCall
  /\ outcome = Pending
  /\ errors = <<>>
  /\ request = NoRequest
  /\ response = NoResponse
  /\ log = <<>>
  /\ db = <<>>
  /\ client \in {PageLoad(storage, 0, 0) : storage \in Optional(UserStates)}
  /\ shared = NoShared

NextCounter ==
  \/ ClickIncrement
  \/ Reload

SpecCounter == InitCounter /\ [][NextCounter]_vars

(***************************************************************************)
(* Properties                                                              *)
(***************************************************************************)
Completed == outcome # Pending

ThrowsValidationError(message) ==
  /\ outcome.kind = "throw"
  /\ InstanceOf(outcome.error, "ValidationError")
  /\ outcome.error.message = message

\* C1: validateEmail, given a well-formed address surrounded by leading or
\* trailing whitespace, returns the address lower-cased with the whitespace
\* removed instead of raising.
C1_PaddedAddressNormalized ==
  (/\ call.op = "validateEmail" /\ Completed
   /\ isString(call.value)
   /\ Trim(call.value.s) # call.value.s
   /\ emailRegexTest(Trim(call.value.s)))
  => outcome = Return(Str(ToLowerCase(Trim(call.value.s))))

EmptyEmailPosted ==
  /\ request.handler = "POST" /\ response # NoResponse
  /\ request.body # None
  /\ Get(request.body).email = Str(<<>>)
  /\ isNotNull(Get(request.body).name)

\* C2 as stated: for the body email "" validateRequired raises "email is
\* required" and the response is errorResponse("email is required",
\* "VALIDATION_ERROR") with status 400.
C2_EmptyEmailIsRequired ==
  EmptyEmailPosted
  => /\ ThrowsValidationError("email is required")
     /\ response = [kind |-> "http", status |-> 400,
                    body |-> [success |-> FALSE, error |-> "email is required",
                              code |-> {"VALIDATION_ERROR"}]]

\* C2 amended: for the body email "" (the other required field present)
\* validateRequired lets the empty string through, validateEmail raises
\* "Invalid email format", and the response is errorResponse("Invalid email
\* format", "VALIDATION_ERROR") with status 400; nothing reached the database.
C2_EmptyEmailInvalidFormat ==
  EmptyEmailPosted
  => /\ ThrowsValidationError("Invalid email format")
     /\ response = [kind |-> "http", status |-> 400,
                    body |-> [success |-> FALSE, error |-> "Invalid email format",
                              code |-> {"VALIDATION_ERROR"}]]
     /\ db = <<>>

C2_Witness == EmptyEmailPosted /\ response.status = 400

\* C3: validateRequired raises ValidationError "<fieldName> is required" if
\* and only if the value is null or undefined; every other value, the falsy
\* ones included, is returned as it is.
C3_RequiredIffNullish ==
  (call.op = "validateRequired" /\ Completed)
  => IF call.value \in {Null, Undefined}
     THEN ThrowsValidationError(call.fieldName \o " is required")
     ELSE outcome = [kind |-> "return", value |-> call.value]

C3_Witness ==
  /\ call.op = "validateRequired"
  /\ call.value = Num(0)
  /\ outcome = [kind |-> "return", value |-> Num(0)]

MinGiven == call.constraints.min # None
MaxGiven == call.constraints.max # None
MinOf == Get(call.constraints.min)
MaxOf == Get(call.constraints.max)

\* C4 as stated: validateNumberRange raises whenever the value is not a finite
\* number (non-number, NaN, +Infinity, -Infinity) or is below min or above max,
\* and returns every finite number within the bounds unchanged.
C4_NonFiniteRejected ==
  (call.op = "validateNumberRange" /\ Completed)
  => IF \/ TypeOf(call.value) # "number"
        \/ call.value.k # "finite"
        \/ (MinGiven /\ call.value.n < MinOf)
        \/ (MaxGiven /\ call.value.n > MaxOf)
     THEN outcome.kind = "throw" /\ InstanceOf(outcome.error, "ValidationError")
     ELSE outcome = [kind |-> "return", value |-> call.value]

\* C4 amended: validateNumberRange raises whenever the value is not of type
\* number or is NaN, or is below min or above max; +Infinity is rejected only
\* when max is given and -Infinity only when min is given; every other number
\* is returned unchanged.
C4_NumberRange ==
  (call.op = "validateNumberRange" /\ Completed)
  => IF \/ TypeOf(call.value) # "number"
        \/ call.value.k = "nan"
        \/ (MinGiven /\ (call.value.k = "-inf"
                         \/ (call.value.k = "finite" /\ call.value.n < MinOf)))
        \/ (MaxGiven /\ (call.value.k = "+inf"
                         \/ (call.value.k = "finite" /\ call.value.n > MaxOf)))
     THEN outcome.kind = "throw" /\ InstanceOf(outcome.error, "ValidationError")
     ELSE outcome = [kind |-> "return", value |-> call.value]

C4_Witness ==
  /\ call.op = "validateNumberRange"
  /\ call.value = PosInfinity
  /\ MinGiven
  /\ outcome = [kind |-> "return", value |-> PosInfinity]

\* C5: every validation helper, for every input value of any shape, either
\* returns a value or raises a ValidationError (code VALIDATION_ERROR,
\* statusCode 400), never any other kind of error.
C5_OnlyValidationErrors ==
  Completed
  => \/ outcome.kind = "return"
     \/ /\ outcome.kind = "throw"
        /\ InstanceOf(outcome.error, "ValidationError")
        /\ outcome.error.code = {"VALIDATION_ERROR"}
        /\ outcome.error.statusCode = {400}

C5_Witness ==
  /\ call.op = "validateUrl"
  /\ isString(call.value)
  /\ outcome.kind = "throw"

RouteHandlers == {"POST", "QuickPOST"}

\* C6: when a route handler catches a failure that is not an AppError, the
\* response is the same whatever the failure: "Internal server error", no
\* code, status 500; the failure itself goes to the log, at level error.
C6_UnexpectedFailureGeneric ==
  (/\ request.handler \in RouteHandlers
   /\ outcome.kind = "throw"
   /\ ~isAppError(outcome.error))
  => /\ response = [kind |-> "http", status |-> 500,
                    body |-> [success |-> FALSE, error |-> "Internal server error",
                              code |-> {}]]
     /\ \E i \in DOMAIN log :
          log[i].level = "error" /\ log[i].context.error = outcome.error

C6_Witness ==
  /\ request.handler = "POST"
  /\ outcome = [kind |-> "throw",
                error |-> NativeError("Error", "connect ECONNREFUSED 10.0.0.5:5432")]
  /\ response.kind = "http"
  /\ response.status = 500

\* C7: at every catch boundary, route handler and server action alike, a
\* caught AppError of any kind yields a failure response whose code is that
\* error's code.
C7_TypedFailureKeepsCode ==
  (/\ response # NoResponse
   /\ outcome.kind = "throw"
   /\ isAppError(outcome.error))
  => /\ response.body.success = FALSE
     /\ response.body.code = outcome.error.code

\* C8: when a route handler catches an AppError e, the response is
\* errorResponse(e.message, e.code) sent with status e.statusCode; a lookup
\* miss raising NotFoundError("User") yields {success: false, error: "User not
\* found", code: "NOT_FOUND"} with status 404.
C8_TypedFailureSurfaced ==
  (/\ request.handler \in RouteHandlers
   /\ outcome.kind = "throw"
   /\ isAppError(outcome.error))
  => /\ response = [kind |-> "http", status |-> Get(outcome.error.statusCode),
                    body |-> [success |-> FALSE, error |-> outcome.error.message,
                              code |-> outcome.error.code]]
     /\ (request.dbThrows = {NotFoundError("User")} /\ db # <<>>)
        => response = [kind |-> "http", status |-> 404,
                       body |-> [success |-> FALSE, error |-> "User not found",
                                 code |-> {"NOT_FOUND"}]]

C8_Witness ==
  /\ request.handler = "POST"
  /\ outcome.kind = "throw"
  /\ InstanceOf(outcome.error, "NotFoundError")
  /\ outcome.error.message = "User not found"
  /\ response.kind = "http"
  /\ response.status = 404

\* the five concrete kinds and the pair each one carries
KindPair ==
  [ValidationError |-> <<400, "VALIDATION_ERROR">>,
   UnauthorizedError |-> <<401, "UNAUTHORIZED">>,
   ForbiddenError |-> <<403, "FORBIDDEN">>,
   NotFoundError |-> <<404, "NOT_FOUND">>,
   ConflictError |-> <<409, "CONFLICT">>]

ConcreteKinds == DOMAIN KindPair

PairOf(e) == <<Get(e.statusCode), Get(e.code)>>

C11_OnlyFiveKinds ==
  (call.op = "isAppError" /\ Completed) =>
    outcome = Return(Bool(call.value.t = "error" /\ call.value.cls \in ConcreteKinds))

\* C11 amended: isAppError(v) is true exactly for the instances of AppError,
\* which are the instances of the five concrete kinds and the instances
\* constructed from the base class itself; a generic Error, null, undefined,
\* a primitive and a plain object with message, code and statusCode give false
C11_AppErrorInstances ==
  (call.op = "isAppError" /\ Completed) =>
    outcome = Return(Bool(/\ call.value.t = "error"
                          /\ call.value.cls \in ConcreteKinds \cup {"AppError"}))

C11_Witness ==
  /\ call.op = "isAppError"
  /\ call.value = PlainObj("password authentication failed", "P1000", 500)
  /\ outcome = Return(Bool(FALSE))

\* C12: successResponse(d) is {success: true, data: d} and has no error
\* field; errorResponse(m, c) is {success: false, error: m, code: c} and has
\* no data field; no envelope holds data together with error
C12_EnvelopeShape ==
  /\ (call.op = "successResponse" /\ Completed) =>
       /\ outcome.kind = "return"
       /\ DOMAIN outcome.value = {"success", "data"}
       /\ outcome.value.success = TRUE
       /\ outcome.value.data = call.data
  /\ (call.op = "errorResponse" /\ Completed) =>
       /\ outcome.kind = "return"
       /\ DOMAIN outcome.value = {"success", "error", "code"}
       /\ outcome.value.success = FALSE
       /\ outcome.value.error = call.error
       /\ outcome.value.code = call.code

C12_Witness ==
  /\ call.op = "errorResponse" /\ call.code = None
  /\ Completed

\* C13: a validator applied to a value it has accepted and returned, with
\* the same field name and constraints, returns that value unchanged; in
\* particular validateEmail(validateEmail(x)) = validateEmail(x)
C13_Idempotent ==
  (Completed /\ outcome.kind = "return") =>
    ApplyValidator([call EXCEPT !.value = outcome.value]) = outcome

\* an address that validateEmail changed on its way out
C13_Witness ==
  /\ call.op = "validateEmail"
  /\ outcome.kind = "return"
  /\ outcome.value # call.value

\* local-part@domain: no whitespace, exactly one "@" with something before
\* it, and after it a "." that neither follows the "@" directly nor ends
\* the address
MatchesEmailPattern(s) ==
  /\ \A i \in 1..Len(s) : s[i] \notin Whitespace
  /\ Cardinality({i \in 1..Len(s) : s[i] = "@"}) = 1
  /\ LET at == CHOOSE i \in 1..Len(s) : s[i] = "@"
     IN /\ at > 1
        /\ \E j \in (at + 2)..(Len(s) - 1) : s[j] = "."

\* C14: validateEmail tests the type before the format: a non-string raises
\* ValidationError "Email must be a string", a string that does not match
\* the pattern raises ValidationError "Invalid email format", and no value
\* that fails the pattern is ever returned
C14_TypeBeforeFormat ==
  (call.op = "validateEmail" /\ Completed) =>
    /\ call.value.t # "string" => ThrowsValidationError("Email must be a string")
    /\ (call.value.t = "string" /\ ~MatchesEmailPattern(call.value.s)) =>
         ThrowsValidationError("Invalid email format")
    /\ outcome.kind = "return" =>
         outcome.value.t = "string" /\ MatchesEmailPattern(outcome.value.s)

C14_Witness ==
  /\ call.op = "validateEmail" /\ call.value = Undefined
  /\ ThrowsValidationError("Email must be a string")

\* a length within two optional inclusive bounds
WithinBounds(length, lower, upper) ==
  /\ lower = None \/ length >= Get(lower)
  /\ upper = None \/ length <= Get(upper)

\* C15: validateStringLength and validateArray return a string, respectively
\* an array, of length L unchanged exactly when the lower bound is unset or
\* L >= lower and the upper bound is unset or L <= upper; both bounds are
\* inclusive and independent; any other input raises a ValidationError;
\* validateArray without a constraints object accepts every array
C15_InclusiveBounds ==
  /\ (call.op = "validateStringLength" /\ Completed) =>
       IF /\ call.value.t = "string"
          /\ WithinBounds(Len(call.value.s), call.constraints.min, call.constraints.max)
       THEN outcome = Return(call.value)
       ELSE outcome.kind = "throw" /\ InstanceOf(outcome.error, "ValidationError")
  /\ (call.op = "validateArray" /\ Completed) =>
       IF /\ call.value.t = "array"
          /\ \/ call.constraints = None
             \/ WithinBounds(Len(call.value.a), Get(call.constraints).minLength,
                             Get(call.constraints).maxLength)
       THEN outcome = Return(call.value)
       ELSE outcome.kind = "throw" /\ InstanceOf(outcome.error, "ValidationError")

\* an array whose length equals both bounds is accepted
C15_Witness ==
  /\ call.op = "validateArray"
  /\ call.constraints = Some([minLength |-> Some(MaxArrLen), maxLength |-> Some(MaxArrLen)])
  /\ outcome.kind = "return"
  /\ Len(outcome.value.a) = MaxArrLen

\* the allowed values of a call as the message is to list them
ListedInOrder ==
  CASE call.allowedValues = <<>> -> ""
    [] call.allowedValues = <<<<"a">>, <<"B">>, <<"a", "B">>>> -> "a, B, aB"
    [] call.allowedValues = <<<<"B">>, <<>>>> -> "B, "
    [] call.allowedValues = Roles -> "admin, user, guest"

\* C16: validateEnum returns the value unchanged exactly when it is a string
\* that is a member of allowedValues; a string that is no member raises a
\* ValidationError whose message lists all allowed values in order, joined by
\* ", "; a non-string raises a ValidationError
C16_EnumMembership ==
  (call.op = "validateEnum" /\ Completed) =>
    /\ IF /\ call.value.t = "string"
          /\ \E i \in 1..Len(call.allowedValues) : call.allowedValues[i] = call.value.s
       THEN outcome = Return(call.value)
       ELSE outcome.kind = "throw" /\ InstanceOf(outcome.error, "ValidationError")
    /\ (call.value.t = "string" /\ outcome.kind = "throw") =>
         outcome.error.message = call.fieldName \o " must be one of: " \o ListedInOrder

\* validateEnum("root", "x", ["admin", "user", "guest"])
C16_Witness ==
  /\ call.op = "validateEnum"
  /\ call.value = Str(<<"r", "o", "o", "t">>)
  /\ call.allowedValues = Roles
  /\ call.fieldName = "x"
  /\ ThrowsValidationError("x must be one of: admin, user, guest")

\* ceil(total / pageSize) for pageSize > 0
PagesNeeded(total, pageSize) == (total + pageSize - 1) \div pageSize

PaginationInvariant(payload) ==
  /\ payload.pageSize > 0 => payload.totalPages = PagesNeeded(payload.total, payload.pageSize)
  /\ Len(payload.items) <= payload.pageSize

PaginatedSuccess ==
  call.op = "successResponse" /\ call.data.t = "page" /\ Completed

Unauthenticated == request.handler = "middleware" /\ request.user = None
Answered == response # NoResponse
UnderDashboard == Len(request.path) >= 2 /\ request.path[2] = "dashboard"
RedirectedToLogin ==
  response.kind = "redirect" /\ response.location = <<"/", "login">>

C19_HydratedAfterRehydrate ==
  client.phase = "browser" =>
    /\ client.renders # <<>> => ~client.renders[1].hydrated
    /\ client.hydrated => (client.rehydrateCalls > 0 /\ client.store.hasHydrated)
    /\ \A i \in 1..Len(client.renders) :
         /\ client.renders[i].hydrated => client.renders[i].storeHydrated
         /\ ~client.renders[i].storeHydrated => client.renders[i].shown = None
    /\ client.rehydrateCalls = 0 => (client.storageReads = 0 /\ ~client.store.hasHydrated)

\* the persisted user on the screen after the hook turned true
C19_Witness ==
  /\ client.phase = "browser"
  /\ client.storage = Some(Str(<<"ann">>))
  /\ client.sets = 0
  /\ Len(client.renders) >= 2
  /\ client.renders[Len(client.renders)]
       = [hydrated |-> TRUE, shown |-> Some(Str(<<"ann">>)), storeHydrated |-> TRUE]

\* C20: isNotNull(v) is false exactly for null and undefined and true for
\* every other value, 0, false, "" and NaN among them; isDefined(v) is false
\* exactly for undefined and true for every other value, null among them
C20_NullishGuards ==
  /\ (call.op = "isNotNull" /\ Completed) =>
       outcome = Return(Bool(call.value.t \notin {"null", "undefined"}))
  /\ (call.op = "isDefined" /\ Completed) =>
       outcome = Return(Bool(call.value.t # "undefined"))

\* isDefined(null) is true
C20_Witness ==
  /\ call.op = "isDefined" /\ call.value = Null
  /\ outcome = Return(Bool(TRUE))

Guards ==
  {"isNotNull", "isDefined", "isString", "isNumber", "isBoolean", "isObject",
   "isArray", "isError", "isAppError"}

GuardSays(op, b) == call.op = op /\ outcome = Return(Bool(b))

\* C21: every guard but assertNever is total: on a value of any shape it
\* returns a boolean, never raises and leaves its argument as it was;
\* isNumber is false for NaN, isObject is false for null and for arrays, so
\* that no value is both an object and an array to the guards
C21_GuardsTotal ==
  /\ []((call.op \in Guards /\ Completed) =>
          /\ outcome.kind = "return"
          /\ outcome.value \in {Bool(TRUE), Bool(FALSE)}
          /\ call.value = NaN => ~GuardSays("isNumber", TRUE)
          /\ call.value.t \in {"null", "array"} => ~GuardSays("isObject", TRUE)
          /\ GuardSays("isArray", TRUE) <=> (call.op = "isArray" /\ call.value.t = "array"))
  /\ [][call.op \in Guards => call' = call]_vars

\* isObject([]) is false
C21_Witness ==
  /\ call.op = "isObject" /\ call.value = Arr(<<>>)
  /\ outcome = Return(Bool(FALSE))

\* the body and status that an unexpected failure is answered with
GenericResponse ==
  [kind |-> "http",
   body |-> [success |-> FALSE, error |-> "Internal server error", code |-> None],
   status |-> 500]

\* C22: assertNever raises for every argument; what it raises is a generic
\* Error outside the taxonomy (isError true, isAppError false), which the
\* route handlers' catch answers with the generic response
C22_AssertNeverGeneric ==
  (call.op = "assertNever" /\ Completed) =>
    /\ outcome.kind = "throw"
    /\ outcome.error.t = "error" /\ outcome.error.cls = "Error"
    /\ isError(outcome.error) /\ ~isAppError(outcome.error)
    /\ RouteCatch(outcome.error, "Unexpected error in POST /api/users").response
         = GenericResponse
    /\ QuickRouteCatch(outcome.error).response = GenericResponse

\* assertNever on a string that no case handles
C22_Witness ==
  /\ call.op = "assertNever" /\ call.value = Str(<<"a">>)
  /\ outcome.kind = "throw"
  /\ outcome.error.message = "Unexpected value: \"a\""

\* what a call returns when it is the only call ever made
RunAlone(c) ==
  CASE c.op \in {"validateEmail", "validateRequired"} -> ApplyValidator(c)
    [] c.op = "isString" -> Return(Bool(c.value.t = "string"))
    [] c.op = "isNotNull" -> Return(Bool(c.value.t \notin {"null", "undefined"}))
    [] c.op = "ValidationError" -> Return(ValidationError(c.message))
    [] c.op = "errorResponse" -> Return(errorResponse(c.error, c.code))

\* C23: guards, validators, error constructors and response constructors
\* keep no shared mutable state: under every interleaving of the calls of
\* concurrent contexts, each call returns what it returns when run alone,
\* and no call leaves anything behind at module level (validateEmail's
\* pattern match carries nothing from one call to the next)
C23_CallsIndependent ==
  /\ shared = NoShared
  /\ \A ctx \in Contexts :
       outcome[ctx] # Pending => outcome[ctx] = RunAlone(call[ctx])

\* two contexts validated the same address and both got it back
C23_Witness ==
  \E c1, c2 \in Contexts :
    /\ c1 # c2
    /\ call[c1] = [op |-> "validateEmail", value |-> Str(<<"A", "@", "B", ".", "c", "o", "m">>)]
    /\ call[c2] = call[c1]
    /\ outcome[c1] = Return(Str(<<"a", "@", "b", ".", "c", "o", "m">>))
    /\ outcome[c2] = outcome[c1]

LoggerCalled(level) == call.op = "logger." \o level /\ Completed
Emitted == log # <<>>
LevelSetTo(value) == call.env.LOG_LEVEL = Some(value)
LevelUnset == call.env.LOG_LEVEL = None
InDevelopment == call.env.NODE_ENV = Some("development")
InProduction == call.env.NODE_ENV = Some("production")

\* C24: in development, with LOG_LEVEL debug or unset, records of all six
\* levels are emitted; in production, with LOG_LEVEL info or unset, trace
\* and debug records are suppressed and the four others emitted; a set
\* LOG_LEVEL (warn, say) decides in either environment
C24_LevelFilter ==
  \A level \in Levels :
    LoggerCalled(level) =>
      /\ (InDevelopment /\ (LevelUnset \/ LevelSetTo("debug"))) => Emitted
      /\ (InProduction /\ (LevelUnset \/ LevelSetTo("info"))) =>
           (Emitted <=> level \notin {"trace", "debug"})
      /\ LevelSetTo("warn") => (Emitted <=> level \in {"warn", "error", "fatal"})

NoIndexEntry == Some([index |-> FALSE, follow |-> FALSE])

\* C25: generateSEO gives the metadata the robots entry {index: false,
\* follow: false} exactly when noindex is true; with noindex false or
\* omitted the metadata has no robots entry; generateBlogPostSEO never asks
\* for noindex, so its metadata has none either
C25_RobotsIffNoindex ==
  /\ (call.op = "generateSEO" /\ Completed) =>
       /\ outcome.value.robots = NoIndexEntry <=> call.props.noindex = Some(TRUE)
       /\ call.props.noindex \in {None, Some(FALSE)} => outcome.value.robots = None
  /\ (call.op = "generateBlogPostSEO" /\ Completed) => outcome.value.robots = None

\* generateSEO({ title: 'Admin Page', noindex: true })
C25_Witness ==
  /\ call.op = "generateSEO"
  /\ call.props.title = Some("Admin Page") /\ call.props.noindex = Some(TRUE)
  /\ Completed
  /\ outcome.value.title = "Admin Page | Next.js 15 Starter Kit"
  /\ outcome.value.robots = NoIndexEntry

Nullish(v) == v.t \in {"null", "undefined"}
Handled == request.handler \in {"POST", "QuickPOST", "deleteUser", "updateUser"} /\ response # NoResponse

\* the input that the operation's validation calls are there to reject
InvalidInput ==
  CASE request.handler = "POST" ->
         /\ request.body # None
         /\ \/ Nullish(Get(request.body).email)
            \/ Nullish(Get(request.body).name)
            \/ Get(request.body).email.t # "string"
            \/ ~MatchesEmailPattern(Get(request.body).email.s)
    [] request.handler = "QuickPOST" ->
         request.body # None /\ Nullish(Get(request.body).email)
    [] request.handler = "deleteUser" -> Nullish(request.userId)
    [] request.handler = "updateUser" ->
         Nullish(request.userId) \/ Nullish(request.data.name)

\* C26: in the operations that validate early (createUser, the POST route
\* handlers, the server actions) every validation call is over before the
\* first database operation starts: when a validation raises, nothing has
\* reached the database, and whatever reached the database came from input
\* that passed every validation
C26_ValidateBeforeSideEffects ==
  Handled =>
    /\ InvalidInput =>
         /\ outcome.kind = "throw" /\ InstanceOf(outcome.error, "ValidationError")
         /\ db = <<>>
    /\ db # <<>> => (~InvalidInput /\ Len(db) = 1)

\* a posted address without "@": rejected inside createUser, nothing created
C26_Witness ==
  /\ Handled /\ request.handler = "POST"
  /\ request.body # None
  /\ Get(request.body).email = Str(<<"a">>)
  /\ ThrowsValidationError("Invalid email format")
  /\ db = <<>>

\* C27: with the session fixed while redirects are followed, the
\* middleware's redirects end at a served page after at most one redirect:
\* without a session /dashboard* goes to /login, with one /login and
\* /register go to /dashboard, and the request that follows a redirect is
\* passed through; there is no cycle
C27_AtMostOneRedirect ==
  request.handler = "middleware" =>
    /\ request.redirects <= 1
    /\ (request.redirects = 1 /\ Answered) => response.kind = "next"
    /\ (Answered /\ response.kind = "redirect") =>
         /\ request.redirects = 0
         /\ response.location
              = (IF request.user = None THEN <<"/", "login">> ELSE <<"/", "dashboard">>)

\* /register with a session: sent to /dashboard, which is served
C27_Witness ==
  /\ request.handler = "middleware" /\ request.user # None
  /\ request.path = <<"/", "dashboard">>
  /\ request.redirects = 1
  /\ response.kind = "next"

\* C28: whenever the Supabase client refreshed the session cookies through
\* setAll during a middleware invocation, the response that the middleware
\* returns, pass-through or redirect, carries those cookies
C28_RefreshedCookiesCarried ==
  (request.handler = "middleware" /\ Answered /\ Matcher(request.path)
     /\ request.refresh) =>
    "sb-access-token" \in response.cookies

\* C29: the homepage counter persists in localStorage: after any number of
\* clicks on Increment Counter and a page reload, the count displayed is
\* the number of clicks made before the reload
C29_CounterSurvivesReload ==
  (client.phase = "homepage" /\ client.reloads > 0 /\ client.clicks = 0) =>
    client.count = client.clicksBefore

\* the component is on the page, and has left it
Mounted == client.phase = "browser" /\ client.mounted
Unmounted == client.phase = "left"

\* what useHydration returned to the latest render
ReturnsTrue ==
  /\ client.renders # <<>>
  /\ client.renders[Len(client.renders)].hydrated

\* no render got false from the hook after a render had got true
NeverFalseAgain ==
  \A i, j \in 1..Len(client.renders) :
    (i < j /\ client.renders[i].hydrated) => client.renders[j].hydrated

\* C30: for a component that stays mounted, useHydration eventually returns
\* true (the microtask that sets it runs after the mount effect), and once
\* it has returned true it never returns false again
C30_EventuallyHydrated ==
  /\ ([]~Unmounted) => (Mounted ~> []ReturnsTrue)
  /\ [](client.phase \in {"browser", "left"} => NeverFalseAgain)

\* the hook returned false to the first render and true to a later one, of
\* a component still mounted, after the store was changed in between
C30_Witness ==
  /\ Mounted
  /\ client.sets > 0
  /\ Len(client.renders) >= 3
  /\ ~client.renders[1].hydrated
  /\ ReturnsTrue
  /\ client.microtasks = <<>> /\ ~client.dirty

====
